---- MODULE Spec2Model ----
(***************************************************************************)
(* Workflow definition validator of dev-ecosystem-core.                    *)
(*                                                                         *)
(* The validator is the zod schema OrbytWorkflowSchema (structural layer)  *)
(* wrapped by three .refine() calls (ValidatedOrbytWorkflowSchema), called *)
(* through validateWorkflow / safeValidateWorkflow.  A raw definition is   *)
(* drawn from bounded pools, one validation call is applied to it, and the *)
(* report it returns is kept in the state.                                 *)
(*                                                                         *)
(* The error taxonomy (BaseError, the error classes of the four tools, the *)
(* ExitCodes enum and the helpers getExitCode, getErrorCode and wrapError) *)
(* is a second specification, ErrSpec: a value is thrown, a helper is      *)
(* applied to it, and what the helper returns is kept in the state.        *)
(*                                                                         *)
(* Four smaller specifications cover the duration patterns of the schema   *)
(* (TimeoutSpec), redactSensitive (LogSpec), AdapterResultBuilder          *)
(* (BuilderSpec) and validation calls of independent callers (CallerSpec). *)
(*                                                                         *)
(* Optional values are sequences of length 0 or 1: None is an absent key,  *)
(* Some(v) a present one.  Strings are TLA+ strings and the regular        *)
(* expressions of the schema are matched character by character.           *)
(***************************************************************************)
EXTENDS Integers, Sequences, FiniteSets, TLC

VARIABLES raw, pc, call, result, accepted, thrown, helper, ret,
          duration, verdict, logObj, redacted, builder, built, history, calls

vars ==
  <<raw, pc, call, result, accepted, thrown, helper, ret,
    duration, verdict, logObj, redacted, builder, built, history, calls>>

\* The variables of the parts of the package outside the validator and the
\* error helpers: the timeout patterns, the log redaction, the adapter result
\* builder and the concurrent callers.
timeoutVars == <<duration, verdict>>

logVars == <<logObj, redacted>>

builderVars == <<builder, built, history>>

callerVars == <<calls>>

None == <<>>

\* A part of the package that the specification at hand does not exercise
\* keeps its variables at these values.
TimeoutOff == duration = None /\ verdict = None

LogOff == logObj = None /\ redacted = None

BuilderOff == builder = None /\ built = None /\ history = None

CallersOff == calls = None

Some(v) == <<v>>

\* Elements of a sequence, as a set.
Range(s) == {s[i] : i \in DOMAIN s}

\* The i-th character of a string.
Char(s, i) == SubSeq(s, i, i)

\* String.prototype.includes: sub occurs in s.
Includes(s, sub) ==
  \E i \in 1..(Len(s) - Len(sub) + 1) : SubSeq(s, i, i + Len(sub) - 1) = sub

\* Zero-based array index as it appears in an issue path.
PathIndex(i) == ToString(i - 1)

(***************************************************************************)
(* Character classes and the regular expressions of the schema             *)
(***************************************************************************)
Digit == {"0", "1", "2", "3", "4", "5", "6", "7", "8", "9"}

Letter ==
  {"a", "b", "c", "d", "e", "f", "g", "h", "i", "j", "k", "l", "m",
   "n", "o", "p", "q", "r", "s", "t", "u", "v", "w", "x", "y", "z",
   "A", "B", "C", "D", "E", "F", "G", "H", "I", "J", "K", "L", "M",
   "N", "O", "P", "Q", "R", "S", "T", "U", "V", "W", "X", "Y", "Z"}

\* [a-zA-Z0-9_-]
WordChar == Letter \cup Digit \cup {"_", "-"}

\* [0-9]+ on s[lo..hi]
AllDigits(s, lo, hi) == lo <= hi /\ \A i \in lo..hi : Char(s, i) \in Digit

\* /^[0-9]+\.[0-9]+(\.[0-9]+)?$/
VersionRegex(s) ==
  \E d1 \in 2..(Len(s) - 1) :
    /\ Char(s, d1) = "."
    /\ AllDigits(s, 1, d1 - 1)
    /\ \/ AllDigits(s, d1 + 1, Len(s))
       \/ \E d2 \in (d1 + 2)..(Len(s) - 1) :
            /\ Char(s, d2) = "."
            /\ AllDigits(s, d1 + 1, d2 - 1)
            /\ AllDigits(s, d2 + 1, Len(s))

\* /^[a-zA-Z][a-zA-Z0-9_-]*$/
StepIdRegex(s) ==
  /\ Len(s) >= 1
  /\ Char(s, 1) \in Letter
  /\ \A i \in 2..Len(s) : Char(s, i) \in WordChar

\* /^[a-zA-Z0-9_-]+(\.[a-zA-Z0-9_-]+)+$/
UsesRegex(s) ==
  /\ Len(s) >= 3
  /\ \A i \in 1..Len(s) : Char(s, i) \in WordChar \cup {"."}
  /\ Char(s, 1) # "."
  /\ Char(s, Len(s)) # "."
  /\ \A i \in 1..(Len(s) - 1) : ~(Char(s, i) = "." /\ Char(s, i + 1) = ".")
  /\ \E i \in 1..Len(s) : Char(s, i) = "."

KindEnum == {"workflow", "pipeline", "job", "playbook", "automation"}

TriggerTypes == {"manual", "cron", "event", "webhook"}

(***************************************************************************)
(* Issues (entries of ZodError.issues)                                     *)
(***************************************************************************)
Issue(code, path, message) == [code |-> code, path |-> path, message |-> message]

\* The concatenation of f[1], ..., f[n], each a sequence of issues.
RECURSIVE ConcatUpTo(_, _)
ConcatUpTo(f, n) == IF n = 0 THEN <<>> ELSE ConcatUpTo(f, n - 1) \o f[n]

ConcatAll(f) == ConcatUpTo(f, Len(f))

(***************************************************************************)
(* Schema layer: OrbytWorkflowSchema                                       *)
(***************************************************************************)
VersionMessage == "Version must follow semantic versioning (e.g., 1.0 or 1.0.0)"

StepIdMessage ==
  "Step ID must start with letter and contain only alphanumeric, underscore, or hyphen"

UsesMessage == "uses must be in format: namespace.action or namespace.domain.action"

MinStepsMessage == "Workflow must have at least one step"

\* version: z.string().regex(...)
VersionIssues(w) ==
  IF w.version = None
    THEN <<Issue("invalid_type", <<"version">>, "Required")>>
    ELSE IF ~VersionRegex(w.version[1])
      THEN <<Issue("invalid_string", <<"version">>, VersionMessage)>>
      ELSE <<>>

\* kind: z.enum([...]).default('workflow')
KindIssues(w) ==
  IF w.kind # None /\ w.kind[1] \notin KindEnum
    THEN <<Issue("invalid_enum_value", <<"kind">>, "Invalid enum value")>>
    ELSE <<>>

\* The key a trigger variant requires besides type, if any.
RequiredTriggerKey(type) ==
  CASE type = "cron" -> Some("schedule")
    [] type = "event" -> Some("source")
    [] type = "webhook" -> Some("endpoint")
    [] OTHER -> None

\* One element of triggers: z.discriminatedUnion('type', [...])
TriggerIssues(t, i) ==
  IF t.type \notin TriggerTypes
    THEN <<Issue("invalid_union_discriminator",
                 <<"triggers", PathIndex(i), "type">>,
                 "Invalid discriminator value")>>
    ELSE IF RequiredTriggerKey(t.type) # None /\ t[RequiredTriggerKey(t.type)[1]] = None
      THEN <<Issue("invalid_type",
                   <<"triggers", PathIndex(i), RequiredTriggerKey(t.type)[1]>>,
                   "Required")>>
      ELSE <<>>

\* triggers: z.array(TriggerSchema).optional()
TriggersIssues(w) ==
  IF w.triggers = None
    THEN <<>>
    ELSE ConcatAll([i \in DOMAIN w.triggers[1] |-> TriggerIssues(w.triggers[1][i], i)])

\* One element of workflow.steps: StepSchema (id and uses)
StepIssues(s, i) ==
  (IF ~StepIdRegex(s.id)
     THEN <<Issue("invalid_string", <<"workflow", "steps", PathIndex(i), "id">>,
                  StepIdMessage)>>
     ELSE <<>>)
  \o
  (IF ~UsesRegex(s.uses)
     THEN <<Issue("invalid_string", <<"workflow", "steps", PathIndex(i), "uses">>,
                  UsesMessage)>>
     ELSE <<>>)

PolicyFailureEnum == {"stop", "continue", "isolate"}

\* policies: PoliciesSchema.optional() (failure and concurrency)
PoliciesIssues(w) ==
  IF w.policies = None
    THEN <<>>
    ELSE
      (IF w.policies[1].failure # None /\ w.policies[1].failure[1] \notin PolicyFailureEnum
         THEN <<Issue("invalid_enum_value", <<"policies", "failure">>, "Invalid enum value")>>
         ELSE <<>>)
      \o
      (IF w.policies[1].concurrency # None /\ w.policies[1].concurrency[1] < 1
         THEN <<Issue("too_small", <<"policies", "concurrency">>,
                      "Number must be greater than or equal to 1")>>
         ELSE <<>>)

\* workflow: WorkflowBodySchema, steps: z.array(StepSchema).min(1, ...)
\* WorkflowBodySchema is a plain z.object: keys it does not declare are
\* dropped without an issue.
WorkflowIssues(w) ==
  IF ~w.workflow.hasSteps
    THEN <<Issue("invalid_type", <<"workflow", "steps">>, "Required")>>
    ELSE
      (IF Len(w.workflow.steps) < 1
         THEN <<Issue("too_small", <<"workflow", "steps">>, MinStepsMessage)>>
         ELSE <<>>)
      \o ConcatAll([i \in DOMAIN w.workflow.steps |-> StepIssues(w.workflow.steps[i], i)])

\* Mutant of RootKeysIssues: the root strips undeclared keys like a plain
\* z.object.
RootKeysStripped(w) == <<>>

\* .strict(): one issue, at the root, for the keys the schema does not declare.
RootKeysIssues(w) ==
  IF w.extra # {}
    THEN <<Issue("unrecognized_keys", <<>>, "Unrecognized key(s) in object")>>
    ELSE <<>>

\* Mutant of StructIssues: the parse stops at the first key with an issue.
StructIssuesFailFast(w) ==
  IF VersionIssues(w) # <<>> THEN VersionIssues(w)
  ELSE IF KindIssues(w) # <<>> THEN KindIssues(w)
  ELSE IF TriggersIssues(w) # <<>> THEN TriggersIssues(w)
  ELSE IF PoliciesIssues(w) # <<>> THEN PoliciesIssues(w)
  ELSE IF WorkflowIssues(w) # <<>> THEN SubSeq(WorkflowIssues(w), 1, 1)
  ELSE RootKeysIssues(w)

\* The issues of the schema layer, in the order of the keys of the schema;
\* the undeclared keys are reported after the declared ones.
StructIssues(w) ==
  VersionIssues(w) \o KindIssues(w) \o TriggersIssues(w) \o PoliciesIssues(w)
    \o WorkflowIssues(w) \o RootKeysIssues(w)

\* An issue that leaves no value behind (a missing required key, a value
\* outside an enum or a discriminator) aborts the parse: the refinements do
\* not run.  A failed regex or a too short array only marks the value dirty.
AbortingCodes == {"invalid_type", "invalid_enum_value", "invalid_union_discriminator"}

Aborting(issues) == \E i \in DOMAIN issues : issues[i].code \in AbortingCodes

StructAborted(w) == Aborting(StructIssues(w))

\* The typed trigger: keys outside the variant are stripped.
ParsedTrigger(t) ==
  [type |-> t.type,
   schedule |-> IF t.type = "cron" THEN t.schedule ELSE None,
   source |-> IF t.type = "event" THEN t.source ELSE None,
   endpoint |-> IF t.type = "webhook" THEN t.endpoint ELSE None,
   extra |-> {}]

\* z.<type>().default(d): d for an absent key, the value otherwise.
Default(opt, d) == IF opt = None THEN d ELSE opt[1]

\* The typed step: continueOnError: z.boolean().default(false); StepSchema
\* is a plain z.object, so undeclared keys are stripped.
ParsedStep(s) ==
  [id |-> s.id, uses |-> s.uses, needs |-> s.needs,
   continueOnError |-> Default(s.continueOnError, FALSE),
   extra |-> {}]

\* Mutant of ParsedPolicies: the default of concurrency is below its own
\* minimum.
ParsedPoliciesDefaultZero(p) ==
  [failure |-> Default(p.failure, "stop"),
   concurrency |-> Default(p.concurrency, 0),
   sandbox |-> Default(p.sandbox, "basic"),
   extra |-> p.extra]

\* The typed policies: PoliciesSchema with its defaults; .passthrough()
\* keeps the undeclared keys.
ParsedPolicies(p) ==
  [failure |-> Default(p.failure, "stop"),
   concurrency |-> Default(p.concurrency, 1),
   sandbox |-> Default(p.sandbox, "basic"),
   extra |-> p.extra]

\* The typed, defaulted definition of a raw tree the schema did not abort on.
\* policies is PoliciesSchema.optional(): an absent policies stays absent.
Parsed(w) ==
  [version |-> w.version[1],
   kind |-> Default(w.kind, "workflow"),
   metadata |-> w.metadata,
   triggers |-> IF w.triggers = None
                  THEN None
                  ELSE Some([i \in DOMAIN w.triggers[1] |-> ParsedTrigger(w.triggers[1][i])]),
   policies |-> IF w.policies = None THEN None ELSE Some(ParsedPolicies(w.policies[1])),
   workflow |-> [steps |-> [i \in DOMAIN w.workflow.steps |-> ParsedStep(w.workflow.steps[i])]]]

(***************************************************************************)
(* Refinements: ValidatedOrbytWorkflowSchema                               *)
(***************************************************************************)
UniqueIdsMessage == "Step IDs must be unique within a workflow"

DependenciesMessage == "Step dependencies must reference existing step IDs"

CronMessage == "Cron triggers must have a schedule field"

\* workflow.workflow.steps.map(step => step.id)
StepIds(workflow) == [i \in DOMAIN workflow.workflow.steps |-> workflow.workflow.steps[i].id]

\* Mutant of UniqueStepIds: only neighbouring steps are compared.
UniqueStepIdsAdjacentOnly(workflow) ==
  LET stepIds == StepIds(workflow) IN
    \A i \in 1..(Len(stepIds) - 1) : stepIds[i] # stepIds[i + 1]

\* First refinement: stepIds.length === new Set(stepIds).size
UniqueStepIds(workflow) ==
  LET stepIds == StepIds(workflow) IN Len(stepIds) = Cardinality(Range(stepIds))

\* Mutant of DependenciesExist: the loop over the steps stops one short.
DependenciesExistSkipLast(workflow) ==
  LET stepIds == Range(StepIds(workflow)) IN
    \A i \in 1..(Len(workflow.workflow.steps) - 1) :
      LET step == workflow.workflow.steps[i] IN
        step.needs # None => \A k \in DOMAIN step.needs[1] : step.needs[1][k] \in stepIds

\* Mutant of DependenciesExist: the id set is filled while iterating, so a
\* dependency on a later step is taken for a missing one.
DependenciesExistEarlierOnly(workflow) ==
  \A i \in DOMAIN workflow.workflow.steps :
    LET step == workflow.workflow.steps[i] IN
      step.needs # None =>
        \A k \in DOMAIN step.needs[1] :
          \E j \in 1..(i - 1) : workflow.workflow.steps[j].id = step.needs[1][k]

\* Second refinement: every entry of every present needs is in the id set.
DependenciesExist(workflow) ==
  LET stepIds == Range(StepIds(workflow)) IN
    \A i \in DOMAIN workflow.workflow.steps :
      LET step == workflow.workflow.steps[i] IN
        step.needs # None => \A k \in DOMAIN step.needs[1] : step.needs[1][k] \in stepIds

\* Mutant of Falsy: trigger.schedule === undefined.
FalsyUndefinedOnly(schedule) == schedule = None

\* !trigger.schedule: undefined and the empty string are falsy.
Falsy(schedule) == schedule = None \/ schedule[1] = ""

\* Third refinement: no cron trigger with a falsy schedule.
CronTriggersHaveSchedule(workflow) ==
  workflow.triggers # None =>
    \A i \in DOMAIN workflow.triggers[1] :
      ~(workflow.triggers[1][i].type = "cron" /\ Falsy(workflow.triggers[1][i].schedule))

\* The issues the three refinements add, in the order of the .refine() chain.
\* A refinement issue is not fatal, so the next refinement still runs.
RefineIssues(workflow) ==
  (IF ~UniqueStepIds(workflow)
     THEN <<Issue("custom", <<"workflow", "steps">>, UniqueIdsMessage)>>
     ELSE <<>>)
  \o
  (IF ~DependenciesExist(workflow)
     THEN <<Issue("custom", <<"workflow", "steps">>, DependenciesMessage)>>
     ELSE <<>>)
  \o
  (IF ~CronTriggersHaveSchedule(workflow)
     THEN <<Issue("custom", <<"triggers">>, CronMessage)>>
     ELSE <<>>)

\* ValidatedOrbytWorkflowSchema: the schema, then the refinements unless the
\* schema aborted.
ValidatedIssues(w) ==
  LET issues == StructIssues(w) IN
    IF Aborting(issues) THEN issues ELSE issues \o RefineIssues(Parsed(w))

\* ValidatedOrbytWorkflowSchema.safeParse(workflow)
SafeParse(w) ==
  LET issues == ValidatedIssues(w) IN
    IF issues = <<>>
      THEN [success |-> TRUE, data |-> Some(Parsed(w)), issues |-> <<>>]
      ELSE [success |-> FALSE, data |-> None, issues |-> issues]

(***************************************************************************)
(* Raw definitions handed to the validator                                 *)
(***************************************************************************)
\* Steps of a definition of the dependency family.
GraphSteps == 3

\* Steps of a definition of the mixed family.
MaxSteps == 2

\* Sequences over S of length 0..n.
SeqUpTo(S, n) == UNION {[1..k -> S] : k \in 0..n}

VersionPool == {None, Some("1.0"), Some("v1")}

KindPool == {None, Some("pipeline"), Some("bogus")}

ManualTrigger ==
  [type |-> "manual", schedule |-> None, source |-> None, endpoint |-> None, extra |-> {}]

CronTrigger(schedule) ==
  [type |-> "cron", schedule |-> schedule, source |-> None, endpoint |-> None, extra |-> {}]

TriggersPool ==
  {None,
   Some(<<ManualTrigger>>),
   Some(<<CronTrigger(None)>>),
   Some(<<CronTrigger(Some(""))>>),
   Some(<<CronTrigger(Some("0 2 * * *"))>>),
   Some(<<ManualTrigger, CronTrigger(Some(""))>>)}

\* Well-formed steps with at most one dependency, possibly unresolved.
GraphStepPool ==
  [id : {"build", "deploy", "test"},
   uses : {"cli.exec"},
   needs : {None} \cup {Some(<<d>>) : d \in {"build", "deploy", "test", "missingStep"}},
   continueOnError : {None},
   extra : {{}}]

\* Steps that may be malformed as well.
MixedStepPool ==
  [id : {"build", "1x"},
   uses : {"cli.exec", "exec"},
   needs : {None, Some(<<"build">>), Some(<<"missingStep">>)},
   continueOnError : {None},
   extra : {{}}]

\* Definitions that differ in their steps only.
GraphDefs ==
  [version : {Some("1.0")},
   kind : {Some("workflow")},
   metadata : {None},
   triggers : {None},
   policies : {None},
   workflow : [hasSteps : {TRUE}, steps : SeqUpTo(GraphStepPool, GraphSteps), extra : {{}}],
   extra : {{}}]

\* Definitions in which every key varies.
MixedDefs ==
  [version : VersionPool,
   kind : KindPool,
   metadata : {None},
   triggers : TriggersPool,
   policies : {None},
   workflow : [hasSteps : {TRUE}, steps : SeqUpTo(MixedStepPool, MaxSteps), extra : {{}}],
   extra : {{}}]

\* Steps of a definition of the keys family.
KeySteps == 1

\* Well-formed steps that may set continueOnError or carry an undeclared key.
KeyStepPool ==
  [id : {"build"},
   uses : {"cli.exec"},
   needs : {None},
   continueOnError : {None, Some(FALSE), Some(TRUE)},
   extra : {{}, {"color"}}]

MetadataPool ==
  {None,
   Some([name |-> Some("nightly"), extra |-> {}]),
   Some([name |-> None, extra |-> {"team"}])}

PoliciesPool ==
  {None} \cup
  {Some(p) : p \in [failure : {None, Some("continue"), Some("never")},
                    concurrency : {None, Some(4), Some(0)},
                    sandbox : {None},
                    extra : {{}, {"quota"}}]}

KeyTriggersPool ==
  {None,
   Some(<<[type |-> "manual", schedule |-> None, source |-> None, endpoint |-> None,
           extra |-> {"label"}]>>),
   Some(<<CronTrigger(Some("0 2 * * *"))>>)}

\* Definitions that differ in the presence of keys: absent optional keys,
\* an absent steps list, and keys the schema does not declare.
KeyDefs ==
  [version : {Some("1.0")},
   kind : {None, Some("job")},
   metadata : MetadataPool,
   triggers : KeyTriggersPool,
   policies : PoliciesPool,
   workflow : [hasSteps : {TRUE}, steps : SeqUpTo(KeyStepPool, KeySteps), extra : {{}, {"notes"}}]
                \cup [hasSteps : {FALSE}, steps : {<<>>}, extra : {{}}],
   extra : {{}, {"foo"}}]

RawDefs == GraphDefs \cup MixedDefs \cup KeyDefs

NoResult == [success |-> FALSE, data |-> None, issues |-> <<>>]

(***************************************************************************)
(* The validation calls                                                    *)
(***************************************************************************)
\* An accepted definition as the tree a caller hands to the validator again:
\* every key the typed definition holds is present.
AsRaw(d) ==
  [version |-> Some(d.version),
   kind |-> Some(d.kind),
   metadata |-> d.metadata,
   triggers |-> d.triggers,
   policies |-> IF d.policies = None
                  THEN None
                  ELSE Some([failure |-> Some(d.policies[1].failure),
                             concurrency |-> Some(d.policies[1].concurrency),
                             sandbox |-> Some(d.policies[1].sandbox),
                             extra |-> d.policies[1].extra]),
   workflow |-> [hasSteps |-> TRUE,
                 steps |-> [i \in DOMAIN d.workflow.steps |->
                              [id |-> d.workflow.steps[i].id,
                               uses |-> d.workflow.steps[i].uses,
                               needs |-> d.workflow.steps[i].needs,
                               continueOnError |-> Some(d.workflow.steps[i].continueOnError),
                               extra |-> d.workflow.steps[i].extra]],
                 extra |-> {}],
   extra |-> {}]

\* Mutant of ArgumentAfterParse: the defaults are written into the argument.
ArgumentDefaultedInPlace(w) == [w EXCEPT !.kind = Some(Default(w.kind, "workflow"))]

\* The argument of a validation call once the call is over: the parse reads
\* the argument and builds its result elsewhere, and the three refinements
\* only read (map, filter, every, includes), so the argument is as it was.
ArgumentAfterParse(w) == w

Init ==
  /\ raw \in RawDefs
  /\ pc = "idle"
  /\ call = "none"
  /\ result = NoResult
  /\ accepted = None
  /\ thrown = None
  /\ helper = "none"
  /\ ret = None
  /\ TimeoutOff /\ LogOff /\ BuilderOff /\ CallersOff

\* safeValidateWorkflow(workflow): the result object, never a throw.
SafeValidateWorkflow ==
  /\ pc = "idle"
  /\ call' = "safeValidateWorkflow"
  /\ result' = SafeParse(raw)
  /\ pc' = "returned"
  /\ raw' = ArgumentAfterParse(raw)
  /\ UNCHANGED <<accepted, thrown, helper, ret, timeoutVars, logVars, builderVars, callerVars>>

\* validateWorkflow(workflow): the data, or a thrown ZodError with the issues.
ValidateWorkflow ==
  /\ pc = "idle"
  /\ call' = "validateWorkflow"
  /\ result' = SafeParse(raw)
  /\ pc' = IF result'.success THEN "returned" ELSE "thrown"
  /\ raw' = ArgumentAfterParse(raw)
  /\ UNCHANGED <<accepted, thrown, helper, ret, timeoutVars, logVars, builderVars, callerVars>>

\* safeValidateWorkflow(result.data): the caller validates the definition a
\* first call accepted once more.
Revalidate ==
  /\ pc = "returned"
  /\ call \in {"safeValidateWorkflow", "validateWorkflow"}
  /\ result.success
  /\ accepted' = result.data
  /\ raw' = ArgumentAfterParse(AsRaw(result.data[1]))
  /\ call' = "revalidate"
  /\ result' = SafeParse(AsRaw(result.data[1]))
  /\ pc' = "returned"
  /\ UNCHANGED <<thrown, helper, ret, timeoutVars, logVars, builderVars, callerVars>>

Next == SafeValidateWorkflow \/ ValidateWorkflow \/ Revalidate

Spec == Init /\ [][Next]_vars

(***************************************************************************)
(* Error taxonomy                                                          *)
(***************************************************************************)
\* The ErrorType enum.
ErrorType ==
  [USER |-> "user", CONFIG |-> "config", SECURITY |-> "security",
   EXECUTION |-> "execution", SYSTEM |-> "system", INTERNAL |-> "internal"]

\* The ErrorSeverity enum.
ErrorSeverity ==
  [LOW |-> "low", MEDIUM |-> "medium", HIGH |-> "high", CRITICAL |-> "critical"]

\* isErrorTypeRetryable(type)
isErrorTypeRetryable(type) == type = ErrorType.SYSTEM \/ type = ErrorType.EXECUTION

\* The ExitCodes enum.
ExitCodes ==
  [SUCCESS |-> 0,
   INVALID_INPUT |-> 100,
   INVALID_SCHEMA |-> 101,
   INVALID_FILE |-> 102,
   INVALID_FORMAT |-> 103,
   MISSING_REQUIRED_INPUT |-> 104,
   VALIDATION_FAILED |-> 105,
   MISSING_CONFIG |-> 200,
   MISSING_SECRET |-> 201,
   MISSING_DEPENDENCY |-> 202,
   ENVIRONMENT_ERROR |-> 203,
   INVALID_CONFIG |-> 204,
   SERVICE_UNAVAILABLE |-> 205,
   WORKFLOW_FAILED |-> 300,
   STEP_FAILED |-> 301,
   ADAPTER_FAILED |-> 302,
   PLUGIN_FAILED |-> 303,
   TIMEOUT |-> 304,
   CIRCULAR_DEPENDENCY |-> 305,
   DEPENDENCY_FAILED |-> 306,
   RESOURCE_ERROR |-> 307,
   PERMISSION_DENIED |-> 400,
   VAULT_LOCKED |-> 401,
   AUTH_FAILED |-> 402,
   INVALID_CREDENTIALS |-> 403,
   FORBIDDEN |-> 404,
   SECRET_RESOLUTION_FAILED |-> 405,
   SECURITY_VIOLATION |-> 406,
   INTERNAL_ERROR |-> 500,
   UNHANDLED_EXCEPTION |-> 501,
   INITIALIZATION_FAILED |-> 502,
   STATE_CORRUPTION |-> 503,
   CRITICAL_FAILURE |-> 504,
   DATABASE_ERROR |-> 505,
   FILESYSTEM_ERROR |-> 506,
   NETWORK_ERROR |-> 507,
   OUT_OF_MEMORY |-> 508,
   BUG_DETECTED |-> 509]

\* The error classes of part_010: the fields each class declares.
OrbytErrors ==
  { [name |-> "WorkflowValidationError", component |-> "orbyt", type |-> "user", code |-> "ORBYT-WF-001",
     exitCode |-> ExitCodes.INVALID_SCHEMA, severity |-> Some("high"), retryable |-> None],
    [name |-> "WorkflowCycleDetectedError", component |-> "orbyt", type |-> "user", code |-> "ORBYT-WF-002",
     exitCode |-> ExitCodes.CIRCULAR_DEPENDENCY, severity |-> Some("high"), retryable |-> None],
    [name |-> "WorkflowParseError", component |-> "orbyt", type |-> "user", code |-> "ORBYT-WF-003",
     exitCode |-> ExitCodes.INVALID_FORMAT, severity |-> Some("high"), retryable |-> None],
    [name |-> "WorkflowNotFoundError", component |-> "orbyt", type |-> "user", code |-> "ORBYT-WF-004",
     exitCode |-> ExitCodes.INVALID_INPUT, severity |-> Some("medium"), retryable |-> None],
    [name |-> "StepNotFoundError", component |-> "orbyt", type |-> "user", code |-> "ORBYT-STEP-001",
     exitCode |-> ExitCodes.INVALID_INPUT, severity |-> Some("medium"), retryable |-> None],
    [name |-> "StepTimeoutError", component |-> "orbyt", type |-> "execution", code |-> "ORBYT-STEP-002",
     exitCode |-> ExitCodes.TIMEOUT, severity |-> Some("medium"), retryable |-> Some(TRUE)],
    [name |-> "StepExecutionError", component |-> "orbyt", type |-> "execution", code |-> "ORBYT-STEP-003",
     exitCode |-> ExitCodes.STEP_FAILED, severity |-> Some("high"), retryable |-> None],
    [name |-> "StepDependencyError", component |-> "orbyt", type |-> "execution", code |-> "ORBYT-STEP-004",
     exitCode |-> ExitCodes.DEPENDENCY_FAILED, severity |-> Some("high"), retryable |-> None],
    [name |-> "StepConfigurationError", component |-> "orbyt", type |-> "config", code |-> "ORBYT-STEP-005",
     exitCode |-> ExitCodes.INVALID_CONFIG, severity |-> Some("medium"), retryable |-> None],
    [name |-> "AdapterNotRegisteredError", component |-> "orbyt", type |-> "config", code |-> "ORBYT-ADAPTER-001",
     exitCode |-> ExitCodes.MISSING_DEPENDENCY, severity |-> Some("high"), retryable |-> None],
    [name |-> "AdapterExecutionError", component |-> "orbyt", type |-> "execution", code |-> "ORBYT-ADAPTER-002",
     exitCode |-> ExitCodes.ADAPTER_FAILED, severity |-> Some("high"), retryable |-> None],
    [name |-> "AdapterInitializationError", component |-> "orbyt", type |-> "config", code |-> "ORBYT-ADAPTER-003",
     exitCode |-> ExitCodes.INITIALIZATION_FAILED, severity |-> Some("critical"), retryable |-> None],
    [name |-> "AdapterNotFoundError", component |-> "orbyt", type |-> "config", code |-> "ORBYT-ADAPTER-005",
     exitCode |-> ExitCodes.MISSING_DEPENDENCY, severity |-> Some("high"), retryable |-> None],
    [name |-> "EngineInitializationError", component |-> "orbyt", type |-> "internal", code |-> "ORBYT-ENGINE-001",
     exitCode |-> ExitCodes.INITIALIZATION_FAILED, severity |-> Some("critical"), retryable |-> None],
    [name |-> "EngineStateCorruptedError", component |-> "orbyt", type |-> "internal", code |-> "ORBYT-ENGINE-002",
     exitCode |-> ExitCodes.STATE_CORRUPTION, severity |-> Some("critical"), retryable |-> None],
    [name |-> "EngineExecutionError", component |-> "orbyt", type |-> "execution", code |-> "ORBYT-ENGINE-003",
     exitCode |-> ExitCodes.WORKFLOW_FAILED, severity |-> Some("high"), retryable |-> None],
    [name |-> "VariableNotFoundError", component |-> "orbyt", type |-> "user", code |-> "ORBYT-VAR-001",
     exitCode |-> ExitCodes.INVALID_INPUT, severity |-> Some("medium"), retryable |-> None],
    [name |-> "VariableResolutionError", component |-> "orbyt", type |-> "execution", code |-> "ORBYT-VAR-002",
     exitCode |-> ExitCodes.STEP_FAILED, severity |-> Some("medium"), retryable |-> None],
    [name |-> "VariableCircularReferenceError", component |-> "orbyt", type |-> "user", code |-> "ORBYT-VAR-003",
     exitCode |-> ExitCodes.CIRCULAR_DEPENDENCY, severity |-> Some("high"), retryable |-> None],
    [name |-> "SecretNotFoundError", component |-> "orbyt", type |-> "config", code |-> "ORBYT-SEC-001",
     exitCode |-> ExitCodes.MISSING_SECRET, severity |-> Some("high"), retryable |-> None],
    [name |-> "SecretResolutionError", component |-> "orbyt", type |-> "security", code |-> "ORBYT-SEC-002",
     exitCode |-> ExitCodes.SECRET_RESOLUTION_FAILED, severity |-> Some("high"), retryable |-> None],
    [name |-> "SecretVaultNotConfiguredError", component |-> "orbyt", type |-> "config", code |-> "ORBYT-SEC-004",
     exitCode |-> ExitCodes.MISSING_CONFIG, severity |-> Some("high"), retryable |-> None] }

\* The error classes of part_007: the fields each class declares.
VaultaErrors ==
  { [name |-> "VaultNotInitializedError", component |-> "vaulta", type |-> "config", code |-> "VAULTA-VAULT-001",
     exitCode |-> ExitCodes.MISSING_CONFIG, severity |-> Some("high"), retryable |-> None],
    [name |-> "VaultLockedError", component |-> "vaulta", type |-> "security", code |-> "VAULTA-VAULT-002",
     exitCode |-> ExitCodes.VAULT_LOCKED, severity |-> Some("high"), retryable |-> None],
    [name |-> "VaultAlreadyExistsError", component |-> "vaulta", type |-> "user", code |-> "VAULTA-VAULT-003",
     exitCode |-> ExitCodes.INVALID_INPUT, severity |-> Some("medium"), retryable |-> None],
    [name |-> "VaultNotFoundError", component |-> "vaulta", type |-> "user", code |-> "VAULTA-VAULT-004",
     exitCode |-> ExitCodes.INVALID_INPUT, severity |-> Some("medium"), retryable |-> None],
    [name |-> "VaultCorruptedError", component |-> "vaulta", type |-> "internal", code |-> "VAULTA-VAULT-005",
     exitCode |-> ExitCodes.STATE_CORRUPTION, severity |-> Some("critical"), retryable |-> None],
    [name |-> "InvalidMasterPasswordError", component |-> "vaulta", type |-> "security", code |-> "VAULTA-SEC-001",
     exitCode |-> ExitCodes.INVALID_CREDENTIALS, severity |-> Some("high"), retryable |-> None],
    [name |-> "VaultPermissionDeniedError", component |-> "vaulta", type |-> "security", code |-> "VAULTA-SEC-002",
     exitCode |-> ExitCodes.PERMISSION_DENIED, severity |-> Some("high"), retryable |-> None],
    [name |-> "VaultAuthenticationError", component |-> "vaulta", type |-> "security", code |-> "VAULTA-SEC-003",
     exitCode |-> ExitCodes.AUTH_FAILED, severity |-> Some("high"), retryable |-> None],
    [name |-> "VaultSessionExpiredError", component |-> "vaulta", type |-> "security", code |-> "VAULTA-SEC-005",
     exitCode |-> ExitCodes.AUTH_FAILED, severity |-> Some("medium"), retryable |-> None],
    [name |-> "EncryptionError", component |-> "vaulta", type |-> "internal", code |-> "VAULTA-CRYPTO-001",
     exitCode |-> ExitCodes.INTERNAL_ERROR, severity |-> Some("critical"), retryable |-> None],
    [name |-> "DecryptionError", component |-> "vaulta", type |-> "security", code |-> "VAULTA-CRYPTO-002",
     exitCode |-> ExitCodes.INTERNAL_ERROR, severity |-> Some("critical"), retryable |-> None],
    [name |-> "InvalidEncryptionKeyError", component |-> "vaulta", type |-> "security", code |-> "VAULTA-CRYPTO-003",
     exitCode |-> ExitCodes.INVALID_CREDENTIALS, severity |-> Some("critical"), retryable |-> None],
    [name |-> "SecretNotFoundError", component |-> "vaulta", type |-> "user", code |-> "VAULTA-ACCESS-001",
     exitCode |-> ExitCodes.MISSING_SECRET, severity |-> Some("medium"), retryable |-> None],
    [name |-> "SecretAlreadyExistsError", component |-> "vaulta", type |-> "user", code |-> "VAULTA-ACCESS-002",
     exitCode |-> ExitCodes.INVALID_INPUT, severity |-> Some("medium"), retryable |-> None],
    [name |-> "InvalidSecretPathError", component |-> "vaulta", type |-> "user", code |-> "VAULTA-ACCESS-003",
     exitCode |-> ExitCodes.INVALID_INPUT, severity |-> Some("medium"), retryable |-> None],
    [name |-> "SecretReadError", component |-> "vaulta", type |-> "execution", code |-> "VAULTA-ACCESS-004",
     exitCode |-> ExitCodes.INTERNAL_ERROR, severity |-> Some("medium"), retryable |-> None],
    [name |-> "SecretWriteError", component |-> "vaulta", type |-> "execution", code |-> "VAULTA-ACCESS-005",
     exitCode |-> ExitCodes.INTERNAL_ERROR, severity |-> Some("medium"), retryable |-> None] }

\* The error classes of mediaproc.errors.ts: the fields each class declares.
MediaProcErrors ==
  { [name |-> "ImageFormatUnsupportedError", component |-> "mediaproc", type |-> "user", code |-> "MEDIAPROC-IMG-001",
     exitCode |-> ExitCodes.INVALID_FORMAT, severity |-> Some("medium"), retryable |-> None],
    [name |-> "ImageResizeError", component |-> "mediaproc", type |-> "execution", code |-> "MEDIAPROC-IMG-002",
     exitCode |-> ExitCodes.STEP_FAILED, severity |-> Some("medium"), retryable |-> None],
    [name |-> "ImageConversionError", component |-> "mediaproc", type |-> "execution", code |-> "MEDIAPROC-IMG-003",
     exitCode |-> ExitCodes.STEP_FAILED, severity |-> Some("medium"), retryable |-> None],
    [name |-> "ImageFileCorruptedError", component |-> "mediaproc", type |-> "user", code |-> "MEDIAPROC-IMG-005",
     exitCode |-> ExitCodes.INVALID_FILE, severity |-> Some("high"), retryable |-> None],
    [name |-> "ImageWatermarkError", component |-> "mediaproc", type |-> "execution", code |-> "MEDIAPROC-IMG-006",
     exitCode |-> ExitCodes.STEP_FAILED, severity |-> Some("medium"), retryable |-> None],
    [name |-> "VideoCodecNotFoundError", component |-> "mediaproc", type |-> "config", code |-> "MEDIAPROC-VID-001",
     exitCode |-> ExitCodes.MISSING_DEPENDENCY, severity |-> Some("high"), retryable |-> None],
    [name |-> "VideoTranscodeError", component |-> "mediaproc", type |-> "execution", code |-> "MEDIAPROC-VID-002",
     exitCode |-> ExitCodes.STEP_FAILED, severity |-> Some("medium"), retryable |-> Some(TRUE)],
    [name |-> "VideoFormatUnsupportedError", component |-> "mediaproc", type |-> "user", code |-> "MEDIAPROC-VID-003",
     exitCode |-> ExitCodes.INVALID_FORMAT, severity |-> Some("medium"), retryable |-> None],
    [name |-> "VideoFileCorruptedError", component |-> "mediaproc", type |-> "user", code |-> "MEDIAPROC-VID-004",
     exitCode |-> ExitCodes.INVALID_FILE, severity |-> Some("high"), retryable |-> None],
    [name |-> "AudioCodecNotFoundError", component |-> "mediaproc", type |-> "config", code |-> "MEDIAPROC-AUD-001",
     exitCode |-> ExitCodes.MISSING_DEPENDENCY, severity |-> Some("high"), retryable |-> None],
    [name |-> "AudioConversionError", component |-> "mediaproc", type |-> "execution", code |-> "MEDIAPROC-AUD-002",
     exitCode |-> ExitCodes.STEP_FAILED, severity |-> Some("medium"), retryable |-> None],
    [name |-> "AudioFormatUnsupportedError", component |-> "mediaproc", type |-> "user", code |-> "MEDIAPROC-AUD-003",
     exitCode |-> ExitCodes.INVALID_FORMAT, severity |-> Some("medium"), retryable |-> None],
    [name |-> "PipelineStepError", component |-> "mediaproc", type |-> "execution", code |-> "MEDIAPROC-PIPE-001",
     exitCode |-> ExitCodes.STEP_FAILED, severity |-> Some("high"), retryable |-> None],
    [name |-> "PipelineConfigurationError", component |-> "mediaproc", type |-> "config", code |-> "MEDIAPROC-PIPE-002",
     exitCode |-> ExitCodes.INVALID_CONFIG, severity |-> Some("medium"), retryable |-> None],
    [name |-> "PipelineTimeoutError", component |-> "mediaproc", type |-> "execution", code |-> "MEDIAPROC-PIPE-003",
     exitCode |-> ExitCodes.TIMEOUT, severity |-> Some("medium"), retryable |-> Some(TRUE)] }

\* The error classes of devforge.errors.ts: the fields each class declares.
DevforgeErrors ==
  { [name |-> "TemplateNotFoundError", component |-> "devforge", type |-> "user", code |-> "DEVFORGE-TPL-001",
     exitCode |-> ExitCodes.INVALID_INPUT, severity |-> Some("medium"), retryable |-> None],
    [name |-> "TemplateParseError", component |-> "devforge", type |-> "internal", code |-> "DEVFORGE-TPL-002",
     exitCode |-> ExitCodes.INTERNAL_ERROR, severity |-> Some("high"), retryable |-> None],
    [name |-> "TemplateStructureError", component |-> "devforge", type |-> "user", code |-> "DEVFORGE-TPL-003",
     exitCode |-> ExitCodes.INVALID_SCHEMA, severity |-> Some("medium"), retryable |-> None],
    [name |-> "TemplateRenderError", component |-> "devforge", type |-> "execution", code |-> "DEVFORGE-TPL-004",
     exitCode |-> ExitCodes.STEP_FAILED, severity |-> Some("medium"), retryable |-> None],
    [name |-> "FeatureConflictError", component |-> "devforge", type |-> "user", code |-> "DEVFORGE-FEAT-001",
     exitCode |-> ExitCodes.INVALID_INPUT, severity |-> Some("medium"), retryable |-> None],
    [name |-> "FeatureNotFoundError", component |-> "devforge", type |-> "user", code |-> "DEVFORGE-FEAT-002",
     exitCode |-> ExitCodes.INVALID_INPUT, severity |-> Some("medium"), retryable |-> None],
    [name |-> "FeatureIncompatibleError", component |-> "devforge", type |-> "user", code |-> "DEVFORGE-FEAT-003",
     exitCode |-> ExitCodes.INVALID_INPUT, severity |-> Some("medium"), retryable |-> None],
    [name |-> "FeatureInstallError", component |-> "devforge", type |-> "execution", code |-> "DEVFORGE-FEAT-004",
     exitCode |-> ExitCodes.STEP_FAILED, severity |-> Some("high"), retryable |-> None],
    [name |-> "ProjectGenerationError", component |-> "devforge", type |-> "execution", code |-> "DEVFORGE-GEN-001",
     exitCode |-> ExitCodes.STEP_FAILED, severity |-> Some("high"), retryable |-> None],
    [name |-> "ProjectAlreadyExistsError", component |-> "devforge", type |-> "user", code |-> "DEVFORGE-GEN-002",
     exitCode |-> ExitCodes.INVALID_INPUT, severity |-> Some("medium"), retryable |-> None],
    [name |-> "FileGenerationError", component |-> "devforge", type |-> "execution", code |-> "DEVFORGE-GEN-004",
     exitCode |-> ExitCodes.FILESYSTEM_ERROR, severity |-> Some("medium"), retryable |-> None],
    [name |-> "DirectoryCreationError", component |-> "devforge", type |-> "execution", code |-> "DEVFORGE-GEN-005",
     exitCode |-> ExitCodes.FILESYSTEM_ERROR, severity |-> Some("medium"), retryable |-> None],
    [name |-> "DependencyInstallError", component |-> "devforge", type |-> "execution", code |-> "DEVFORGE-GEN-006",
     exitCode |-> ExitCodes.STEP_FAILED, severity |-> Some("high"), retryable |-> Some(TRUE)],
    [name |-> "DevforgeConfigurationError", component |-> "devforge", type |-> "config", code |-> "DEVFORGE-CONFIG-001",
     exitCode |-> ExitCodes.INVALID_CONFIG, severity |-> Some("medium"), retryable |-> None],
    [name |-> "ConfigNotFoundError", component |-> "devforge", type |-> "config", code |-> "DEVFORGE-CONFIG-002",
     exitCode |-> ExitCodes.MISSING_CONFIG, severity |-> Some("medium"), retryable |-> None],
    [name |-> "ConfigParseError", component |-> "devforge", type |-> "config", code |-> "DEVFORGE-CONFIG-003",
     exitCode |-> ExitCodes.INVALID_FORMAT, severity |-> Some("medium"), retryable |-> None] }

ErrorClasses == OrbytErrors \cup VaultaErrors \cup MediaProcErrors \cup DevforgeErrors

\* getExitCodeCategory(code)
getExitCodeCategory(code) ==
  IF code = 0 THEN "success"
  ELSE IF code >= 100 /\ code < 200 THEN "user-error"
  ELSE IF code >= 200 /\ code < 300 THEN "config-error"
  ELSE IF code >= 300 /\ code < 400 THEN "execution-error"
  ELSE IF code >= 400 /\ code < 500 THEN "security-error"
  ELSE IF code >= 500 /\ code < 600 THEN "internal-error"
  ELSE "unknown"

\* isSuccess(code)
isSuccess(code) == code = ExitCodes.SUCCESS

\* The numeric values of the ExitCodes enum.
ExitCodeValues == {ExitCodes[n] : n \in DOMAIN ExitCodes}

\* ExitCodes[code]: the reverse mapping of the numeric enum, value to name.
ExitCodeName(code) == CHOOSE n \in DOMAIN ExitCodes : ExitCodes[n] = code

\* The Exit Code Reference: the "Exit Code: **n**" headings with the Name
\* line under each.
ExitCodeReference ==
  LET rows ==
    {<<0, "SUCCESS">>,
     <<100, "INVALID_INPUT">>,
     <<101, "INVALID_FILE">>,
     <<102, "INVALID_FORMAT">>,
     <<103, "INVALID_SCHEMA">>,
     <<104, "FILE_NOT_FOUND">>,
     <<105, "PERMISSION_DENIED">>,
     <<200, "MISSING_CONFIG">>,
     <<201, "INVALID_CONFIG">>,
     <<202, "MISSING_DEPENDENCY">>,
     <<203, "ENV_VAR_MISSING">>,
     <<204, "CONFIG_VALIDATION_FAILED">>,
     <<205, "WORKSPACE_INVALID">>,
     <<300, "STEP_FAILED">>,
     <<301, "DEPENDENCY_FAILED">>,
     <<302, "TIMEOUT">>,
     <<303, "RESOURCE_EXHAUSTED">>,
     <<304, "RATE_LIMIT_EXCEEDED">>,
     <<305, "NETWORK_ERROR">>,
     <<306, "EXTERNAL_SERVICE_ERROR">>,
     <<307, "FILESYSTEM_ERROR">>,
     <<400, "INVALID_CREDENTIALS">>,
     <<401, "AUTH_FAILED">>,
     <<402, "PERMISSION_DENIED_RESOURCE">>,
     <<403, "VAULT_LOCKED">>,
     <<404, "MISSING_SECRET">>,
     <<405, "ENCRYPTION_FAILED">>,
     <<406, "DECRYPTION_FAILED">>,
     <<500, "INTERNAL_ERROR">>,
     <<501, "UNHANDLED_ERROR">>,
     <<502, "STATE_CORRUPTION">>,
     <<503, "PANIC">>,
     <<504, "ASSERTION_FAILED">>,
     <<505, "NOT_IMPLEMENTED">>,
     <<506, "INVALID_STATE">>,
     <<507, "INITIALIZATION_FAILED">>,
     <<508, "SHUTDOWN_FAILED">>,
     <<509, "VERSION_MISMATCH">>}
  IN [code \in {r[1] : r \in rows} |-> (CHOOSE r \in rows : r[1] = code)[2]]

\* Mutant of isRetryable: a locked vault counts as retryable, as it is once
\* the vault is unlocked.
isRetryableAfterUnlock(code) ==
  code \in {ExitCodes.TIMEOUT, ExitCodes.SERVICE_UNAVAILABLE, ExitCodes.NETWORK_ERROR,
            ExitCodes.DATABASE_ERROR, ExitCodes.RESOURCE_ERROR, ExitCodes.VAULT_LOCKED}

\* isRetryable(code)
isRetryable(code) ==
  code \in {ExitCodes.TIMEOUT, ExitCodes.SERVICE_UNAVAILABLE, ExitCodes.NETWORK_ERROR,
            ExitCodes.DATABASE_ERROR, ExitCodes.RESOURCE_ERROR}

\* Values thrown from outside the taxonomy: an Error instance, a string, a
\* plain object and undefined.
ForeignValues ==
  { [tag |-> "Error", payload |-> "disk full"],
    [tag |-> "string", payload |-> "boom"],
    [tag |-> "object", payload |-> "{}"],
    [tag |-> "undefined", payload |-> ""] }

\* error instanceof Error, for a value from outside the taxonomy.
InstanceOfError(v) == v.tag = "Error"

\* String(error), for a value that is not an Error.
String(v) ==
  CASE v.tag = "string" -> v.payload
    [] v.tag = "object" -> "[object Object]"
    [] v.tag = "undefined" -> "undefined"
    [] OTHER -> "Error: " \o v.payload

\* new C(message, context, cause): the constructor of BaseError under the
\* fields of class c; severity and retryable keep the defaults of BaseError
\* unless the class declares them.
New(c, message, cause) ==
  [tag |-> "BaseError",
   name |-> c.name,
   message |-> message,
   component |-> c.component,
   type |-> c.type,
   code |-> c.code,
   exitCode |-> c.exitCode,
   severity |-> Default(c.severity, ErrorSeverity.MEDIUM),
   retryable |-> Default(c.retryable, FALSE),
   cause |-> cause]

\* isEcosystemError(error)
isEcosystemError(error) == error.tag = "BaseError"

\* getErrorCode(error)
getErrorCode(error) == IF isEcosystemError(error) THEN error.code ELSE "UNKNOWN-ERROR"

\* Mutant of getExitCode: a value from outside the taxonomy has no exit code
\* of its own and yields the zero of the enum.
getExitCodeZero(error) ==
  IF isEcosystemError(error) THEN error.exitCode ELSE ExitCodes.SUCCESS

\* getExitCode(error)
getExitCode(error) ==
  IF isEcosystemError(error) THEN error.exitCode ELSE ExitCodes.INTERNAL_ERROR

\* wrapError(error, component, code): code is None when the caller leaves it
\* to its default.
wrapError(error, component, code) ==
  IF isEcosystemError(error)
    THEN error
    ELSE LET message == IF InstanceOfError(error) THEN error.payload ELSE String(error)
             cause == IF InstanceOfError(error) THEN Some(error) ELSE None
         IN New([name |-> "", component |-> component, type |-> ErrorType.INTERNAL,
                 code |-> Default(code, "UNKNOWN-ERROR"),
                 exitCode |-> ExitCodes.UNHANDLED_EXCEPTION,
                 severity |-> None, retryable |-> None],
                message, cause)

\* The component names a caller of wrapError passes.
Components == {"orbyt", "mediaproc", "vaulta", "devforge"}

\* The values a caller can hold: an instance of every error class, built with
\* or without a cause, and the values from outside the taxonomy.
ThrownValues ==
  {New(c, "failed", cause) : c \in ErrorClasses, cause \in {None, Some([tag |-> "Error", payload |-> "disk full"])}}
  \cup ForeignValues

ErrInit ==
  /\ thrown \in ThrownValues
  /\ helper = "none"
  /\ ret = None
  /\ raw = None
  /\ pc = "caught"
  /\ call = "none"
  /\ result = NoResult
  /\ accepted = None
  /\ TimeoutOff /\ LogOff /\ BuilderOff /\ CallersOff

\* The validator and the error helpers at rest, for the specifications of
\* the other parts.
ValidatorOff ==
  raw = None /\ pc = "off" /\ call = "none" /\ result = NoResult /\ accepted = None

TaxonomyOff == thrown = None /\ helper = "off" /\ ret = None

validatorVars == <<raw, pc, call, result, accepted>>

taxonomyVars == <<thrown, helper, ret>>

\* getExitCode(thrown)
GetExitCode ==
  /\ pc = "caught" /\ helper = "none"
  /\ helper' = "getExitCode"
  /\ ret' = getExitCode(thrown)
  /\ UNCHANGED <<thrown, raw, pc, call, result, accepted, timeoutVars, logVars, builderVars, callerVars>>

\* getErrorCode(thrown)
GetErrorCode ==
  /\ pc = "caught" /\ helper = "none"
  /\ helper' = "getErrorCode"
  /\ ret' = getErrorCode(thrown)
  /\ UNCHANGED <<thrown, raw, pc, call, result, accepted, timeoutVars, logVars, builderVars, callerVars>>

\* wrapError(thrown, component) and wrapError(thrown, component, code)
WrapError ==
  /\ pc = "caught" /\ helper = "none"
  /\ \E component \in Components, code \in {None, Some("ORBYT-ENGINE-003")} :
       /\ helper' = "wrapError"
       /\ ret' = wrapError(thrown, component, code)
  /\ UNCHANGED <<thrown, raw, pc, call, result, accepted, timeoutVars, logVars, builderVars, callerVars>>

\* The wrapped error is thrown on to the next handler.
Rethrow ==
  /\ pc = "caught" /\ helper = "wrapError"
  /\ thrown' = ret
  /\ helper' = "none"
  /\ ret' = None
  /\ UNCHANGED <<raw, pc, call, result, accepted, timeoutVars, logVars, builderVars, callerVars>>

\* isRetryable(code), for a code of the enum.
IsRetryable ==
  /\ pc = "caught" /\ helper = "none"
  /\ \E code \in ExitCodeValues :
       /\ helper' = "isRetryable"
       /\ ret' = [code |-> code, retryable |-> isRetryable(code)]
  /\ UNCHANGED <<thrown, raw, pc, call, result, accepted, timeoutVars, logVars, builderVars, callerVars>>

\* A reader looks a code up: its name in the enum and in the reference.
LookupExitCode ==
  /\ pc = "caught" /\ helper = "none"
  /\ \E code \in ExitCodeValues :
       /\ helper' = "lookup"
       /\ ret' = [code |-> code, name |-> ExitCodeName(code),
                  documented |-> IF code \in DOMAIN ExitCodeReference
                                   THEN Some(ExitCodeReference[code]) ELSE None]
  /\ UNCHANGED <<thrown, raw, pc, call, result, accepted, timeoutVars, logVars, builderVars, callerVars>>

ErrNext ==
  GetExitCode \/ GetErrorCode \/ WrapError \/ Rethrow \/ IsRetryable \/ LookupExitCode

ErrSpec == ErrInit /\ [][ErrNext]_vars

(***************************************************************************)
(* Duration patterns: defaults.timeout and step.timeout                    *)
(***************************************************************************)
\* /^[0-9]+(ms|s|m|h|d)$/ of DefaultsSchema.timeout
DefaultsTimeoutRegex(s) ==
  \E k \in 1..(Len(s) - 1) :
    /\ AllDigits(s, 1, k)
    /\ SubSeq(s, k + 1, Len(s)) \in {"ms", "s", "m", "h", "d"}

\* /^[0-9]+(ms|s|m|h)$/ of StepSchema.timeout
StepTimeoutRegex(s) ==
  \E k \in 1..(Len(s) - 1) :
    /\ AllDigits(s, 1, k)
    /\ SubSeq(s, k + 1, Len(s)) \in {"ms", "s", "m", "h"}

\* Duration strings: an amount followed by a unit, well formed or not.
AmountPool == {"", "0", "5", "30", "007", "1.5", "-1", "x"}

UnitPool == {"", "ms", "s", "m", "h", "d", "w", "S", "sec", " s"}

DurationPool == {a \o u : a \in AmountPool, u \in UnitPool}

TimeoutInit ==
  /\ duration \in DurationPool
  /\ verdict = [defaults |-> None, step |-> None]
  /\ ValidatorOff /\ TaxonomyOff /\ LogOff /\ BuilderOff /\ CallersOff

\* DefaultsSchema parses { timeout: duration }.
ParseDefaultsTimeout ==
  /\ verdict # None /\ verdict.defaults = None
  /\ verdict' = [verdict EXCEPT !.defaults = Some(DefaultsTimeoutRegex(duration))]
  /\ UNCHANGED <<duration, validatorVars, taxonomyVars, logVars, builderVars, callerVars>>

\* StepSchema parses a step with timeout: duration.
ParseStepTimeout ==
  /\ verdict # None /\ verdict.step = None
  /\ verdict' = [verdict EXCEPT !.step = Some(StepTimeoutRegex(duration))]
  /\ UNCHANGED <<duration, validatorVars, taxonomyVars, logVars, builderVars, callerVars>>

TimeoutNext == ParseDefaultsTimeout \/ ParseStepTimeout

TimeoutSpec == TimeoutInit /\ [][TimeoutNext]_vars

(***************************************************************************)
(* AdapterResultBuilder                                                    *)
(***************************************************************************)
\* The longest chain of builder calls before build().
MaxCalls == 3

\* private result = { success: false, metrics: { durationMs: 0 }, logs: [],
\* effects: [], emits: [], warnings: [] }: output and error are absent.
NewBuilder ==
  [success |-> FALSE,
   output |-> None,
   error |-> None,
   metrics |-> [durationMs |-> 0, retries |-> None],
   logs |-> <<>>,
   effects |-> <<>>,
   emits |-> <<>>,
   warnings |-> <<>>]

\* The arguments of failure(): a string or an AdapterError.
FailureArgs ==
  { [kind |-> "string", message |-> "bad input", code |-> None],
    [kind |-> "AdapterError", message |-> "refused", code |-> Some("E42")] }

\* typeof error === 'string' ? { message: error } : error
AsAdapterError(error) ==
  IF error.kind = "string"
    THEN [message |-> error.message, code |-> None]
    ELSE [message |-> error.message, code |-> error.code]

\* The arguments of success(): undefined or an output.
SuccessArgs == {None, Some("out")}

\* One call is recorded with its name and its argument.
Recorded(op, arg) == Append(history, [op |-> op, arg |-> arg])

BuilderInit ==
  /\ builder = NewBuilder
  /\ built = None
  /\ history = <<>>
  /\ ValidatorOff /\ TaxonomyOff /\ TimeoutOff /\ LogOff /\ CallersOff

\* A further call is possible: build() has not been called and the chain is
\* not at its bound.
Chaining == builder # None /\ built = None /\ Len(history) < MaxCalls

\* success(output)
BuilderSuccess ==
  /\ Chaining
  /\ \E output \in SuccessArgs :
       /\ builder' = [builder EXCEPT !.success = TRUE, !.output = output]
       /\ history' = Recorded("success", output)
  /\ UNCHANGED <<built, validatorVars, taxonomyVars, timeoutVars, logVars, callerVars>>

\* failure(error)
BuilderFailure ==
  /\ Chaining
  /\ \E error \in FailureArgs :
       /\ builder' = [builder EXCEPT !.success = FALSE, !.error = Some(AsAdapterError(error))]
       /\ history' = Recorded("failure", Some(error))
  /\ UNCHANGED <<built, validatorVars, taxonomyVars, timeoutVars, logVars, callerVars>>

\* metrics(metrics)
BuilderMetrics ==
  /\ Chaining
  /\ builder' = [builder EXCEPT !.metrics = [durationMs |-> 12, retries |-> Some(1)]]
  /\ history' = Recorded("metrics", None)
  /\ UNCHANGED <<built, validatorVars, taxonomyVars, timeoutVars, logVars, callerVars>>

\* duration(ms): result.metrics is always set, so the else branch runs.
BuilderDuration ==
  /\ Chaining
  /\ builder' = [builder EXCEPT !.metrics.durationMs = 7]
  /\ history' = Recorded("duration", None)
  /\ UNCHANGED <<built, validatorVars, taxonomyVars, timeoutVars, logVars, callerVars>>

\* log(message) and logs(messages)
BuilderLog ==
  /\ Chaining
  /\ \E messages \in {<<"started">>, <<"read", "wrote">>} :
       builder' = [builder EXCEPT !.logs = builder.logs \o messages]
  /\ history' = Recorded("log", None)
  /\ UNCHANGED <<built, validatorVars, taxonomyVars, timeoutVars, logVars, callerVars>>

\* effect(effect) and effects(effects)
BuilderEffect ==
  /\ Chaining
  /\ \E effects \in {<<"file.write">>, <<"file.write", "net.call">>} :
       builder' = [builder EXCEPT !.effects = builder.effects \o effects]
  /\ history' = Recorded("effect", None)
  /\ UNCHANGED <<built, validatorVars, taxonomyVars, timeoutVars, logVars, callerVars>>

\* emit(event)
BuilderEmit ==
  /\ Chaining
  /\ builder' = [builder EXCEPT !.emits = Append(builder.emits, "done")]
  /\ history' = Recorded("emit", None)
  /\ UNCHANGED <<built, validatorVars, taxonomyVars, timeoutVars, logVars, callerVars>>

\* warning(warning) and warnings(warnings)
BuilderWarning ==
  /\ Chaining
  /\ \E warnings \in {<<"slow">>, <<"slow", "deprecated">>} :
       builder' = [builder EXCEPT !.warnings = builder.warnings \o warnings]
  /\ history' = Recorded("warning", None)
  /\ UNCHANGED <<built, validatorVars, taxonomyVars, timeoutVars, logVars, callerVars>>

\* build(): the result object itself.
BuilderBuild ==
  /\ builder # None /\ built = None
  /\ built' = Some(builder)
  /\ UNCHANGED <<builder, history, validatorVars, taxonomyVars, timeoutVars, logVars, callerVars>>

BuilderNext ==
  \/ BuilderSuccess \/ BuilderFailure \/ BuilderMetrics \/ BuilderDuration
  \/ BuilderLog \/ BuilderEffect \/ BuilderEmit \/ BuilderWarning \/ BuilderBuild

BuilderSpec == BuilderInit /\ [][BuilderNext]_vars

(***************************************************************************)
(* Log redaction: redactSensitive                                          *)
(***************************************************************************)
\* A value of a log record is a string (s), or an object or an array (v: the
\* entries in the order of Object.entries, those of an array under its
\* indices).
Entry(key, value) == [k |-> key, val |-> value]

Str(x) == [t |-> "string", s |-> x, v |-> <<>>]

Obj(entries) == [t |-> "object", s |-> "", v |-> entries]

Arr(items) == [t |-> "array", s |-> "", v |-> [i \in DOMAIN items |-> Entry(PathIndex(i), items[i])]]

\* String.prototype.toLowerCase, on one character and on a string.
LowerChar(c) ==
  LET upper ==
    {<<"A", "a">>, <<"B", "b">>, <<"C", "c">>, <<"D", "d">>, <<"E", "e">>,
     <<"F", "f">>, <<"G", "g">>, <<"H", "h">>, <<"I", "i">>, <<"J", "j">>,
     <<"K", "k">>, <<"L", "l">>, <<"M", "m">>, <<"N", "n">>, <<"O", "o">>,
     <<"P", "p">>, <<"Q", "q">>, <<"R", "r">>, <<"S", "s">>, <<"T", "t">>,
     <<"U", "u">>, <<"V", "v">>, <<"W", "w">>, <<"X", "x">>, <<"Y", "y">>,
     <<"Z", "z">>}
  IN IF \E u \in upper : u[1] = c THEN (CHOOSE u \in upper : u[1] = c)[2] ELSE c

RECURSIVE ToLowerCase(_)
ToLowerCase(str) ==
  IF str = "" THEN "" ELSE LowerChar(Char(str, 1)) \o ToLowerCase(SubSeq(str, 2, Len(str)))

\* const sensitiveKeys = [...]
sensitiveKeys ==
  <<"password", "secret", "token", "apiKey", "api_key", "accessToken", "access_token",
    "privateKey", "private_key", "creditCard", "ssn">>

\* sensitiveKeys.some(sk => lowerKey.includes(sk.toLowerCase()))
isSensitive(key) ==
  LET lowerKey == ToLowerCase(key)
  IN \E i \in DOMAIN sensitiveKeys : Includes(lowerKey, ToLowerCase(sensitiveKeys[i]))

\* redactSensitive(obj), on the entries of obj: a sensitive key gets the
\* placeholder, a non-null object that is not an array is redacted in turn,
\* anything else (a string, an array) is copied as it is.
RECURSIVE redactSensitive(_)
redactSensitive(entries) ==
  [i \in DOMAIN entries |->
     LET key == entries[i].k
         value == entries[i].val
     IN IF isSensitive(key)
          THEN Entry(key, Str("[REDACTED]"))
          ELSE IF value.t = "object"
                 THEN Entry(key, Obj(redactSensitive(value.v)))
                 ELSE Entry(key, value)]

\* The largest number of entries of the log record.
LogEntries == 2

LogKeys == {"password", "AccessToken", "api_key", "name", "users"}

LogLeaves == {Str("alice"), Str("hunter2")}

\* Objects one level down, and arrays that hold a string or such an object.
LogInnerObjects ==
  {Obj(<<Entry(key, leaf)>>) : key \in {"password", "name"}, leaf \in LogLeaves}

LogArrays == {Arr(<<item>>) : item \in LogLeaves \cup LogInnerObjects}

LogValues == LogLeaves \cup LogInnerObjects \cup LogArrays

\* Log records: up to LogEntries entries under distinct keys.
LogRecords ==
  {entries \in UNION {[1..n -> {Entry(key, value) : key \in LogKeys, value \in LogValues}] :
                        n \in 1..LogEntries} :
     \A i, j \in DOMAIN entries : i # j => entries[i].k # entries[j].k}

LogInit ==
  /\ logObj \in LogRecords
  /\ redacted = None
  /\ ValidatorOff /\ TaxonomyOff /\ TimeoutOff /\ BuilderOff /\ CallersOff

\* redactSensitive(logObj)
RedactSensitive ==
  /\ logObj # None /\ redacted = None
  /\ redacted' = Some(redactSensitive(logObj))
  /\ UNCHANGED <<logObj, validatorVars, taxonomyVars, timeoutVars, builderVars, callerVars>>

LogNext == RedactSensitive

LogSpec == LogInit /\ [][LogNext]_vars

(***************************************************************************)
(* Validation calls of independent callers                                 *)
(***************************************************************************)
\* Callers that validate at the same time.
NumCallers == 2

Callers == 1..NumCallers

\* A definition of a caller: version, kind, triggers and steps given.
CallerDef(version, kind, triggers, steps) ==
  [version |-> Some(version),
   kind |-> Some(kind),
   metadata |-> None,
   triggers |-> triggers,
   policies |-> None,
   workflow |-> [hasSteps |-> TRUE, steps |-> steps, extra |-> {}],
   extra |-> {}]

CallerStep(id, needs) ==
  [id |-> id, uses |-> "cli.exec", needs |-> needs, continueOnError |-> None, extra |-> {}]

\* A valid definition, and definitions that fail in the schema, in one
\* refinement, in two, and in schema and refinement together.
CallerDefs ==
  { CallerDef("1.0", "workflow", None,
              <<CallerStep("build", None), CallerStep("deploy", Some(<<"build">>))>>),
    CallerDef("1.0", "workflow", None,
              <<CallerStep("build", None), CallerStep("build", None)>>),
    CallerDef("1.0", "workflow", None,
              <<CallerStep("deploy", Some(<<"missingStep">>))>>),
    CallerDef("v1", "workflow", None,
              <<CallerStep("test", None), CallerStep("test", None)>>),
    CallerDef("1.0", "bogus", None,
              <<CallerStep("build", None), CallerStep("build", None)>>),
    CallerDef("1.0", "workflow", Some(<<CronTrigger(Some(""))>>),
              <<CallerStep("build", Some(<<"test">>))>>) }

\* Mutant of Frame: the issue list and the id set are module-level values,
\* the same for every call.
FrameShared(c) == 1

\* The issue list of the parse and the locals of the refinements (stepIds,
\* the Set) belong to the call: the frame of caller c.
Frame(c) == c

\* step.needs checked against a given id set: the loop of the second
\* refinement once stepIds is built.
NeedsWithin(workflow, stepIds) ==
  \A i \in DOMAIN workflow.workflow.steps :
    LET step == workflow.workflow.steps[i] IN
      step.needs # None => \A k \in DOMAIN step.needs[1] : step.needs[1][k] \in stepIds

CallerInit ==
  /\ calls \in [of : [Callers -> [raw : CallerDefs, stage : {"idle"}, result : {NoResult}]],
                frames : {[c \in Callers |-> [issues |-> <<>>, stepIds |-> {}]]}]
  /\ ValidatorOff /\ TaxonomyOff /\ TimeoutOff /\ LogOff /\ BuilderOff

\* The call of caller c moves to the next stage, its frame is as given.
Advance(c, stage, frame) ==
  /\ calls' = [of |-> [calls.of EXCEPT ![c].stage = stage],
               frames |-> [calls.frames EXCEPT ![Frame(c)] = frame]]
  /\ UNCHANGED <<validatorVars, taxonomyVars, timeoutVars, logVars, builderVars>>

\* safeParse starts: OrbytWorkflowSchema fills the issue list of the call.
CallerSchema ==
  \E c \in Callers :
    /\ calls # None /\ calls.of[c].stage = "idle"
    /\ LET issues == StructIssues(calls.of[c].raw)
       IN Advance(c, IF Aborting(issues) THEN "settle" ELSE "unique",
                  [issues |-> issues, stepIds |-> {}])

\* First refinement.
CallerUnique ==
  \E c \in Callers :
    /\ calls # None /\ calls.of[c].stage = "unique"
    /\ LET frame == calls.frames[Frame(c)]
       IN Advance(c, "collect",
                  [frame EXCEPT !.issues =
                     IF ~UniqueStepIds(Parsed(calls.of[c].raw))
                       THEN Append(@, Issue("custom", <<"workflow", "steps">>, UniqueIdsMessage))
                       ELSE @])

\* Second refinement, first statement: stepIds = new Set(steps.map(s => s.id)).
CallerCollectIds ==
  \E c \in Callers :
    /\ calls # None /\ calls.of[c].stage = "collect"
    /\ LET frame == calls.frames[Frame(c)]
       IN Advance(c, "dependencies",
                  [frame EXCEPT !.stepIds = Range(StepIds(Parsed(calls.of[c].raw)))])

\* Second refinement, the loop over the steps and their needs.
CallerDependencies ==
  \E c \in Callers :
    /\ calls # None /\ calls.of[c].stage = "dependencies"
    /\ LET frame == calls.frames[Frame(c)]
       IN Advance(c, "cron",
                  [frame EXCEPT !.issues =
                     IF ~NeedsWithin(Parsed(calls.of[c].raw), frame.stepIds)
                       THEN Append(@, Issue("custom", <<"workflow", "steps">>, DependenciesMessage))
                       ELSE @])

\* Third refinement.
CallerCron ==
  \E c \in Callers :
    /\ calls # None /\ calls.of[c].stage = "cron"
    /\ LET frame == calls.frames[Frame(c)]
       IN Advance(c, "settle",
                  [frame EXCEPT !.issues =
                     IF ~CronTriggersHaveSchedule(Parsed(calls.of[c].raw))
                       THEN Append(@, Issue("custom", <<"triggers">>, CronMessage))
                       ELSE @])

\* safeParse returns: success with the typed definition when the issue list
\* of the call is empty, the issues otherwise.
CallerReturn ==
  \E c \in Callers :
    /\ calls # None /\ calls.of[c].stage = "settle"
    /\ LET issues == calls.frames[Frame(c)].issues
       IN calls' = [calls EXCEPT
                      !.of[c].stage = "returned",
                      !.of[c].result =
                         IF issues = <<>>
                           THEN [success |-> TRUE, data |-> Some(Parsed(calls.of[c].raw)), issues |-> <<>>]
                           ELSE [success |-> FALSE, data |-> None, issues |-> issues]]
    /\ UNCHANGED <<validatorVars, taxonomyVars, timeoutVars, logVars, builderVars>>

CallerNext ==
  \/ CallerSchema \/ CallerUnique \/ CallerCollectIds
  \/ CallerDependencies \/ CallerCron \/ CallerReturn

CallerSpec == CallerInit /\ [][CallerNext]_vars

(***************************************************************************)
(* Vocabulary of the properties                                            *)
(***************************************************************************)
\* A validation call has ended, by a return or by a throw.
Called == pc # "idle"

\* The call accepted the definition.
Accepted == pc = "returned" /\ result.success

\* The ids a step lists in needs.
NeedsOf(step) == IF step.needs = None THEN {} ELSE Range(step.needs[1])

\* The edges step -> dependency of a list of steps.
NeedsEdges(steps) ==
  UNION {{<<steps[i].id, d>> : d \in NeedsOf(steps[i])} : i \in DOMAIN steps}

\* The targets of the edges that leave a node of S.
Successors(E, S) == {e[2] : e \in {x \in E : x[1] \in S}}

\* The nodes reached from S in at most n further edges.
RECURSIVE ReachedIn(_, _, _)
ReachedIn(E, S, n) == IF n = 0 THEN S ELSE ReachedIn(E, S \cup Successors(E, S), n - 1)

\* Node v lies on a cycle of the graph with edges E.
OnCycle(E, v) == v \in ReachedIn(E, Successors(E, {v}), Cardinality(E))

\* The step ids that lie on a cycle of the needs graph.
CycleIds(steps) == {id \in Range([i \in DOMAIN steps |-> steps[i].id]) : OnCycle(NeedsEdges(steps), id)}

HasCycle(steps) == CycleIds(steps) # {}

\* The ids that more than one step carries.
DuplicatedIds(steps) ==
  {steps[i].id : i \in {x \in DOMAIN steps : \E y \in DOMAIN steps : y # x /\ steps[y].id = steps[x].id}}

\* The needs entries <<step index, entry index>> that equal no step id.
UnresolvedNeeds(steps) ==
  {e \in UNION {{<<i, k>> : k \in (IF steps[i].needs = None THEN {} ELSE DOMAIN steps[i].needs[1])} :
                i \in DOMAIN steps} :
     \A j \in DOMAIN steps : steps[j].id # steps[e[1]].needs[1][e[2]]}

\* The cron triggers of an optional trigger list without a non-empty schedule.
IncompleteCrons(triggers) ==
  IF triggers = None
    THEN {}
    ELSE {i \in DOMAIN triggers[1] :
            /\ triggers[1][i].type = "cron"
            /\ (triggers[1][i].schedule = None \/ triggers[1][i].schedule = Some(""))}

\* The positions of the report that hold an issue with the given message.
IssuesWith(message) == {i \in DOMAIN result.issues : result.issues[i].message = message}

\* The positions of the report that hold a finding about a dependency cycle.
CycleFindings ==
  {i \in DOMAIN result.issues :
     \/ Includes(result.issues[i].message, "ircular")
     \/ Includes(result.issues[i].message, "ycle")}

\* The raw definition has none of the structural defects of the field table.
FieldTableOk ==
  /\ raw.version # None /\ VersionRegex(raw.version[1])
  /\ raw.kind = None \/ raw.kind[1] \in KindEnum
  /\ raw.workflow.hasSteps
  /\ Len(raw.workflow.steps) >= 1
  /\ \A i \in DOMAIN raw.workflow.steps :
       StepIdRegex(raw.workflow.steps[i].id) /\ UsesRegex(raw.workflow.steps[i].uses)
  /\ raw.triggers # None =>
       \A i \in DOMAIN raw.triggers[1] :
         /\ raw.triggers[1][i].type \in TriggerTypes
         /\ raw.triggers[1][i].type = "event" => raw.triggers[1][i].source # None
         /\ raw.triggers[1][i].type = "webhook" => raw.triggers[1][i].endpoint # None
  /\ raw.policies # None =>
       /\ raw.policies[1].failure = None \/ raw.policies[1].failure[1] \in PolicyFailureEnum
       /\ raw.policies[1].concurrency = None \/ raw.policies[1].concurrency[1] >= 1
  /\ raw.extra = {}

(***************************************************************************)
(* Properties                                                              *)
(***************************************************************************)
\* C1: the needs graph of every accepted definition is acyclic.  The
\* validator has no acyclicity pass, so this fails: a step that needs itself
\* is accepted.
C1_AcceptedIsAcyclic == Accepted => ~HasCycle(result.data[1].workflow.steps)

\* C2: in every accepted definition each entry of each needs list is the id
\* of some step of that definition.
C2_AcceptedNeedsResolve ==
  Accepted =>
    LET steps == result.data[1].workflow.steps IN
      \A i \in DOMAIN steps :
        \A d \in NeedsOf(steps[i]) : \E j \in DOMAIN steps : steps[j].id = d

\* An accepted definition with a dependency.
C2_Witness ==
  /\ Accepted
  /\ \E i \in DOMAIN result.data[1].workflow.steps :
       NeedsOf(result.data[1].workflow.steps[i]) # {}

\* C3: on a structurally valid definition the report holds a uniqueness error
\* exactly when some step id occurs more than once, and an accepted
\* definition has pairwise distinct step ids.
C3_UniquenessIffDuplicate ==
  /\ (Called /\ StructIssues(raw) = <<>>) =>
       (IssuesWith(UniqueIdsMessage) # {} <=> DuplicatedIds(raw.workflow.steps) # {})
  /\ Accepted =>
       \A i, j \in DOMAIN result.data[1].workflow.steps :
         i # j => result.data[1].workflow.steps[i].id # result.data[1].workflow.steps[j].id

\* A structurally valid definition with a repeated id, reported as such.
C3_Witness ==
  /\ Called
  /\ StructIssues(raw) = <<>>
  /\ DuplicatedIds(raw.workflow.steps) # {}
  /\ IssuesWith(UniqueIdsMessage) # {}

\* C4: every cron trigger of an accepted definition has a schedule that is
\* present and not the empty string.
C4_AcceptedCronHasSchedule ==
  Accepted =>
    (result.data[1].triggers # None =>
       \A i \in DOMAIN result.data[1].triggers[1] :
         LET t == result.data[1].triggers[1][i] IN
           t.type = "cron" => (t.schedule # None /\ t.schedule[1] # ""))

\* An accepted definition with a cron trigger.
C4_Witness ==
  /\ Accepted
  /\ result.data[1].triggers # None
  /\ \E i \in DOMAIN result.data[1].triggers[1] : result.data[1].triggers[1][i].type = "cron"

C6_OneErrorPerUnresolvedNeed ==
  (/\ Called
   /\ FieldTableOk
   /\ DuplicatedIds(raw.workflow.steps) = {}
   /\ IncompleteCrons(raw.triggers) = {})
  => LET steps == raw.workflow.steps
         missing == UnresolvedNeeds(steps)
     IN /\ Len(result.issues) = Cardinality(missing)
        /\ \A i \in DOMAIN result.issues : result.issues[i].path = <<"workflow", "steps">>
        /\ \A e \in missing :
             \E i \in DOMAIN result.issues :
               /\ Includes(result.issues[i].message, steps[e[1]].needs[1][e[2]])
               /\ Includes(result.issues[i].message, steps[e[1]].id)

\* C7: an otherwise valid definition with a cron trigger whose schedule is
\* absent or empty is rejected with exactly one error, at path triggers.  An
\* absent schedule is an error of the schema layer at triggers.<i>.schedule
\* and the refinement does not run, so this fails.
C7_IncompleteCronAtTriggers ==
  (/\ Called
   /\ FieldTableOk
   /\ DuplicatedIds(raw.workflow.steps) = {}
   /\ UnresolvedNeeds(raw.workflow.steps) = {}
   /\ ~HasCycle(raw.workflow.steps)
   /\ Cardinality(IncompleteCrons(raw.triggers)) = 1)
  => /\ ~result.success
     /\ Len(result.issues) = 1
     /\ result.issues[1].path = <<"triggers">>

\* C8: for an otherwise valid definition whose needs edges form a cycle, the
\* report holds exactly one cycle finding, and it lists the ids on the cycle.
\* There is no acyclicity pass, so this fails.
C8_OneCycleFinding ==
  (/\ Called
   /\ FieldTableOk
   /\ DuplicatedIds(raw.workflow.steps) = {}
   /\ UnresolvedNeeds(raw.workflow.steps) = {}
   /\ IncompleteCrons(raw.triggers) = {}
   /\ CycleIds(raw.workflow.steps) = {"build", "deploy", "test"})
  => /\ Cardinality(CycleFindings) = 1
     /\ \A i \in CycleFindings :
          \A id \in CycleIds(raw.workflow.steps) : Includes(result.issues[i].message, id)

\* C9: on a structurally valid definition the report holds one uniqueness
\* error per duplicated step id, at path workflow.steps, whose message names
\* the duplicated id.  The refinement's message is fixed, so this fails.
C9_OneErrorPerDuplicatedId ==
  (Called /\ StructIssues(raw) = <<>>) =>
    /\ Cardinality(IssuesWith(UniqueIdsMessage)) = Cardinality(DuplicatedIds(raw.workflow.steps))
    /\ \A i \in IssuesWith(UniqueIdsMessage) : result.issues[i].path = <<"workflow", "steps">>
    /\ \A d \in DuplicatedIds(raw.workflow.steps) :
         \E i \in IssuesWith(UniqueIdsMessage) : Includes(result.issues[i].message, d)

\* C10: on a structurally valid definition that violates several business
\* rules at once, the report of one call holds a finding of every violated
\* pass.  A violated acyclicity rule never yields a finding, so this fails.
C10_EveryViolatedPassReports ==
  LET steps == raw.workflow.steps
      violated ==
        (IF DuplicatedIds(steps) # {} THEN {"uniqueness"} ELSE {})
        \cup (IF UnresolvedNeeds(steps) # {} THEN {"existence"} ELSE {})
        \cup (IF HasCycle(steps) THEN {"acyclicity"} ELSE {})
        \cup (IF IncompleteCrons(raw.triggers) # {} THEN {"triggers"} ELSE {})
  IN (Called /\ StructIssues(raw) = <<>> /\ Cardinality(violated) >= 2) =>
       /\ "uniqueness" \in violated => IssuesWith(UniqueIdsMessage) # {}
       /\ "existence" \in violated => IssuesWith(DependenciesMessage) # {}
       /\ "acyclicity" \in violated => CycleFindings # {}
       /\ "triggers" \in violated => IssuesWith(CronMessage) # {}

(***************************************************************************)
(* Properties of the schema layer                                          *)
(***************************************************************************)
\* The nodes of the raw tree that violate a constraint of the field table,
\* each as the path of the node.
ViolatedPaths ==
  (IF raw.version = None \/ ~VersionRegex(raw.version[1]) THEN {<<"version">>} ELSE {})
  \cup (IF raw.kind # None /\ raw.kind[1] \notin KindEnum THEN {<<"kind">>} ELSE {})
  \cup (IF raw.triggers = None
          THEN {}
          ELSE {<<"triggers", ToString(i - 1), "type">> :
                  i \in {x \in DOMAIN raw.triggers[1] : raw.triggers[1][x].type \notin TriggerTypes}}
               \cup
               {<<"triggers", ToString(i - 1), "schedule">> :
                  i \in {x \in DOMAIN raw.triggers[1] :
                           raw.triggers[1][x].type = "cron" /\ raw.triggers[1][x].schedule = None}})
  \cup (IF raw.policies # None /\ raw.policies[1].failure \notin {None, Some("stop"), Some("continue"), Some("isolate")}
          THEN {<<"policies", "failure">>} ELSE {})
  \cup (IF raw.policies # None /\ raw.policies[1].concurrency # None /\ raw.policies[1].concurrency[1] < 1
          THEN {<<"policies", "concurrency">>} ELSE {})
  \cup (IF ~raw.workflow.hasSteps \/ raw.workflow.steps = <<>> THEN {<<"workflow", "steps">>} ELSE {})
  \cup {<<"workflow", "steps", ToString(i - 1), "id">> :
          i \in {x \in DOMAIN raw.workflow.steps : ~StepIdRegex(raw.workflow.steps[x].id)}}
  \cup {<<"workflow", "steps", ToString(i - 1), "uses">> :
          i \in {x \in DOMAIN raw.workflow.steps : ~UsesRegex(raw.workflow.steps[x].uses)}}
  \cup (IF raw.extra # {} THEN {<<>>} ELSE {})

\* The positions of the report that hold an issue of the schema layer.
StructuralErrors == {i \in DOMAIN result.issues : result.issues[i].code # "custom"}

\* C11: one call reports exactly one structural error per violated
\* constraint, each with the path of the offending node, whatever the number
\* of violations.
C11_SchemaCollectsAll ==
  Called =>
    /\ {result.issues[i].path : i \in StructuralErrors} = ViolatedPaths
    /\ Cardinality(StructuralErrors) = Cardinality(ViolatedPaths)

\* A malformed version, a step with a malformed id and another step with a
\* malformed uses, reported together.
C11_Witness ==
  /\ Called
  /\ raw.version = Some("v1")
  /\ Len(raw.workflow.steps) = 2
  /\ ~StepIdRegex(raw.workflow.steps[1].id) /\ UsesRegex(raw.workflow.steps[1].uses)
  /\ StepIdRegex(raw.workflow.steps[2].id) /\ ~UsesRegex(raw.workflow.steps[2].uses)
  /\ Cardinality(StructuralErrors) = 3

\* C12: a definition is rejected whenever version is absent or malformed,
\* kind is absent or outside the enum, or workflow.steps is absent or empty.
\* kind has a default, so a definition without kind is accepted: this fails.
C12_RequiredFieldsRejected ==
  (/\ Called
   /\ \/ raw.version = None \/ ~VersionRegex(raw.version[1])
      \/ raw.kind = None \/ raw.kind[1] \notin KindEnum
      \/ ~raw.workflow.hasSteps \/ raw.workflow.steps = <<>>)
  => ~result.success

\* C13: a definition with a root key outside the closed field set is
\* rejected, whatever else it contains.
C13_UnknownRootKeyRejected ==
  (Called /\ raw.extra # {}) =>
    /\ ~result.success
    /\ result.data = None
    /\ \E i \in DOMAIN result.issues :
         result.issues[i].code = "unrecognized_keys" /\ result.issues[i].path = <<>>
    /\ call = "validateWorkflow" => pc = "thrown"

\* A definition whose only defect is the unknown root key.
C13_Witness ==
  /\ Called
  /\ raw.extra = {"foo"}
  /\ Len(result.issues) = 1
  /\ ~result.success

\* The raw definition is valid apart from keys that nested objects do not
\* declare.
ValidButForUnknownKeys ==
  /\ FieldTableOk
  /\ DuplicatedIds(raw.workflow.steps) = {}
  /\ UnresolvedNeeds(raw.workflow.steps) = {}
  /\ IncompleteCrons(raw.triggers) = {}

\* C14: an unknown key inside workflow causes rejection, an unknown key
\* inside metadata, policies, a step or a trigger does not.  The workflow
\* object drops unknown keys without an issue, so this fails.
C14_WorkflowObjectClosed ==
  /\ (Called /\ raw.workflow.extra # {}) => ~result.success
  /\ (Called /\ ValidButForUnknownKeys /\ raw.workflow.extra = {})
       => result.success

\* C15: in an accepted definition every step has continueOnError (false when
\* the input omitted it), and policies.failure is "stop" and
\* policies.concurrency is 1 whenever the input gave no such field, be it the
\* field or the whole policies object that is absent.  An absent policies
\* object stays absent, so this fails.
C15_DefaultsApplied ==
  Accepted =>
    LET d == result.data[1] IN
      /\ \A i \in DOMAIN d.workflow.steps :
           /\ d.workflow.steps[i].continueOnError \in BOOLEAN
           /\ raw.workflow.steps[i].continueOnError = None
                => d.workflow.steps[i].continueOnError = FALSE
      /\ (raw.policies = None \/ raw.policies[1].failure = None)
           => (d.policies # None /\ d.policies[1].failure = "stop")
      /\ (raw.policies = None \/ raw.policies[1].concurrency = None)
           => (d.policies # None /\ d.policies[1].concurrency = 1)

\* C16: validating an accepted definition again accepts it, with zero errors
\* and the same definition as result.
C16_ValidationIdempotent ==
  call = "revalidate" =>
    /\ pc = "returned"
    /\ result.success
    /\ result.issues = <<>>
    /\ result.data = accepted

\* A second validation of a definition that had defaults applied and keeps
\* undeclared keys of policies.
C16_Witness ==
  /\ call = "revalidate"
  /\ accepted # None
  /\ accepted[1].policies # None
  /\ accepted[1].policies[1].concurrency = 1
  /\ accepted[1].policies[1].extra # {}
  /\ accepted[1].kind = "workflow"

(***************************************************************************)
(* Properties of the error taxonomy                                        *)
(***************************************************************************)
\* The exit code range of a category; the range table has no row for system.
CategoryRange(type) ==
  CASE type = "user" -> 100..199
    [] type = "config" -> 200..299
    [] type = "execution" -> 300..399
    [] type = "security" -> 400..499
    [] type = "internal" -> 500..599
    [] OTHER -> {}

\* The class of the error declares its own retryable field.
OwnRetryable(e) ==
  \E c \in ErrorClasses :
    c.name = e.name /\ c.component = e.component /\ c.retryable # None

\* C17: the exit code of every error of the taxonomy, the one wrapError
\* builds included, lies in the range of the error's category.  Several
\* classes pair a category with a code of another range (a user error with
\* CIRCULAR_DEPENDENCY = 305), so this fails.
C17_ExitCodeInCategoryRange ==
  (pc = "caught" /\ isEcosystemError(thrown)) =>
    thrown.exitCode \in CategoryRange(thrown.type)

\* C18: an error whose class declares no retryable field is retryable exactly
\* when its category is system or execution.  BaseError initialises retryable
\* to false for every category, so this fails for execution errors.
C18_RetryableFollowsCategory ==
  (pc = "caught" /\ isEcosystemError(thrown) /\ ~OwnRetryable(thrown)) =>
    thrown.retryable = isErrorTypeRetryable(thrown.type)

\* C19: wrapError returns a taxonomy member unchanged, and turns any other
\* value into an internal error with exit code UNHANDLED_EXCEPTION whose cause
\* is that value.  A value that is not an Error instance is not kept as cause,
\* so this fails.
C19_WrapKeepsOriginal ==
  helper = "wrapError" =>
    IF isEcosystemError(thrown)
      THEN ret = thrown
      ELSE /\ isEcosystemError(ret)
           /\ ret.type = "internal"
           /\ ret.exitCode = 501
           /\ ret.cause = Some(thrown)

\* C20: the exit code derived from any error value (an error of the taxonomy,
\* a wrapped error, any other thrown value) is never SUCCESS and lies in one
\* of the fixed ranges.
C20_ExitCodeNeverSuccess ==
  helper = "getExitCode" =>
    /\ ret # 0
    /\ ~isSuccess(ret)
    /\ ret \in 100..599
    /\ getExitCodeCategory(ret) \notin {"success", "unknown"}

\* getExitCode applied to a thrown string.
C20_Witness ==
  /\ helper = "getExitCode"
  /\ thrown.tag = "string"
  /\ ret = 500

\* C23: every exit code has the same name in the exit code reference as the
\* member of the ExitCodes enum with that value.  The reference numbers most
\* codes differently from the enum (101 is INVALID_FILE in the reference and
\* INVALID_SCHEMA in the enum), so this fails.
C23_ReferenceMatchesEnum ==
  helper = "lookup" => ret.documented = Some(ret.name)

C27_WrapKeepsOutcome ==
  helper = "wrapError" =>
    /\ ret.exitCode = getExitCode(thrown)
    /\ \A component \in Components :
         /\ wrapError(thrown, component, None).exitCode = getExitCode(thrown)
         /\ wrapError(thrown, component, None).code = getErrorCode(thrown)

\* C28: for every error of a concrete class, retryable is true exactly when
\* isRetryable of its exit code is true.  VideoTranscodeError is retryable
\* with exit code STEP_FAILED, which isRetryable rejects, so this fails.
C28_RetryClassificationsAgree ==
  (helper = "isRetryable" /\ isEcosystemError(thrown) /\ ret.code = thrown.exitCode)
    => thrown.retryable = ret.retryable

\* C29: a duration string is accepted for defaults.timeout exactly when it
\* is accepted for step.timeout.  The defaults pattern has the unit d and the
\* step pattern has not, so this fails.
C29_TimeoutPatternsAgree ==
  (verdict # None /\ verdict.defaults # None /\ verdict.step # None)
    => verdict.defaults = verdict.step

\* The positions of the chain that hold a success() or failure() call.
OutcomeCalls == {i \in DOMAIN history : history[i].op \in {"success", "failure"}}

\* C30: after any chain of builder calls and build(), success = true implies
\* that no error is present, success = false implies that no output is
\* present, and the outcome fields are those of the last success() or
\* failure() call alone.  success() does not clear error and failure() does
\* not clear output, so this fails after failure().success() and after
\* success(out).failure().
C30_BuiltResultCoherent ==
  (builder # None /\ built # None) =>
    LET b == built[1] IN
      /\ b.success => b.error = None
      /\ ~b.success => b.output = None
      /\ OutcomeCalls # {} =>
           LET last == history[CHOOSE i \in OutcomeCalls : \A j \in OutcomeCalls : j <= i]
           IN IF last.op = "success"
                THEN b.success /\ b.output = last.arg /\ b.error = None
                ELSE ~b.success /\ b.error = Some(AsAdapterError(last.arg[1])) /\ b.output = None

\* A key is sensitive when, in lower case, it contains one of the names
\* password, secret, token, apiKey, accessToken, privateKey, creditCard, ssn.
NamedSensitive(key) ==
  \E name \in {"password", "secret", "token", "apikey", "accesstoken",
               "privatekey", "creditcard", "ssn"} :
    Includes(ToLowerCase(key), name)

\* The values of a tree that sit under a sensitive key, at any depth, through
\* objects and arrays alike.
RECURSIVE UnderSensitiveKey(_)
UnderSensitiveKey(value) ==
  IF value.t = "object"
    THEN UNION {IF NamedSensitive(value.v[i].k)
                  THEN {value.v[i].val}
                  ELSE UnderSensitiveKey(value.v[i].val) : i \in DOMAIN value.v}
    ELSE IF value.t = "array"
      THEN UNION {UnderSensitiveKey(value.v[i].val) : i \in DOMAIN value.v}
      ELSE {}

\* The same tree with a fixed value under every sensitive key.
RECURSIVE Blanked(_)
Blanked(value) ==
  IF value.t = "object"
    THEN Obj([i \in DOMAIN value.v |->
                IF NamedSensitive(value.v[i].k)
                  THEN Entry(value.v[i].k, Str(""))
                  ELSE Entry(value.v[i].k, Blanked(value.v[i].val))])
    ELSE IF value.t = "array"
      THEN Arr([i \in DOMAIN value.v |-> Blanked(value.v[i].val)])
      ELSE value

\* C21: in the output of redactSensitive every value under a sensitive key,
\* at any depth of the input, is the placeholder, so the output is the same
\* for inputs that differ under sensitive keys only, and the values under
\* the other keys are those of the input.  Arrays are copied without being
\* visited, so an object inside an array keeps its secrets and this fails.
C21_RedactionComplete ==
  (logObj # None /\ redacted # None) =>
    /\ \A value \in UnderSensitiveKey(Obj(redacted[1])) : value = Str("[REDACTED]")
    /\ redacted[1] = redactSensitive(Blanked(Obj(logObj)).v)
    /\ Blanked(Obj(redacted[1])) = Blanked(Obj(logObj))

\* The positions of the report that hold an issue of a business-rule pass.
BusinessErrors == {i \in DOMAIN result.issues : result.issues[i].code = "custom"}

\* C26: the business-rule passes run only on a definition the schema layer
\* accepted: a report holds structural errors only or business-rule errors
\* only, and a definition with a violation of either kind is reported with
\* its structural errors alone.  A failed pattern does not stop the parse, so
\* the refinements run on the definition and this fails.
C26_LayersNeverMix ==
  Called =>
    /\ ~(StructuralErrors # {} /\ BusinessErrors # {})
    /\ (/\ ViolatedPaths # {}
        /\ \/ DuplicatedIds(raw.workflow.steps) # {}
           \/ UnresolvedNeeds(raw.workflow.steps) # {}
           \/ IncompleteCrons(raw.triggers) # {})
       => (StructuralErrors # {} /\ BusinessErrors = {})

====
